---- MODULE Spec2Model ----
(***************************************************************************)
(* A model of the invoicing core of pik-laskutin2: ledger entries, the     *)
(* balance calculator, the invoice command, the send command, the rule     *)
(* engine with its price cap, refunds, and the guards of AccountEntry.     *)
(*                                                                         *)
(* Amounts are integers counting cents: AccountEntry.amount is a           *)
(* QuantizedDecimalField (2 decimals), so every stored amount is a whole   *)
(* number of cents.  Dates are day numbers; Year(d) is the calendar year.  *)
(* Primary keys are positions in the sequences entries and invoices; a     *)
(* deleted row keeps its position with exists = FALSE (keys are not        *)
(* reused).                                                                *)
(***************************************************************************)
EXTENDS Integers, Sequences, FiniteSets, TLC

VARIABLES
    entries,       \* table account_entries (AccountEntry rows, with their tags)
    invoices,      \* table invoices (Invoice rows)
    links,         \* AccountEntry.invoices, the many-to-many table: <<entry, invoice>>
    flights,       \* table flights: the ids of the Flight rows imported so far
    refund_entry,  \* BaseEvent.refund_entry of every flight (0 is NULL)
    now,           \* the clock, timezone.now(), as a day number
    last,          \* what the last operation was and what it returned
    ghost,         \* history: what has happened so far (read by no operation)
    batches,       \* the open transaction of every process running a batch
    duration,      \* Flight.duration of the Flight objects in memory
    account_table  \* table accounts: the ids of the Account rows

vars == <<entries, invoices, links, flights, refund_entry, now, last, ghost,
          batches, duration, account_table>>

----------------------------------------------------------------------------
(* Bounds of the model *)

MaxEntries == 3
MaxInvoices == 3
MaxLedger == 4
MaxImported == 2

Accounts == {1, 2}
ClockDates == {2, 3}

\* The rows the import commands are given: <<account, date, amount>>.
EntryRows ==
    ({1} \X {1, 2} \X {-5000, 2000, 5000}) \cup {<<2, 1, 5000>>}
BalanceRows ==
    {1} \X {1, 2} \X {0, 2000}

Year(d) == (d + 1) \div 2

----------------------------------------------------------------------------
(* Rows *)

NewEntry(acc, d, amt, add, ev) ==
    [account |-> acc, date |-> d, amount |-> amt, additive |-> add,
     visible |-> TRUE, event |-> ev, tags |-> {}, note |-> FALSE,
     exists |-> TRUE]

NewInvoice(acc) ==
    [account |-> acc, status |-> "draft", sent_at |-> 0, exists |-> TRUE]

RECURSIVE SumAmounts(_, _)
SumAmounts(es, S) ==
    IF S = {} THEN 0
    ELSE LET i == CHOOSE x \in S : TRUE
         IN es[i].amount + SumAmounts(es, S \ {i})

AccountIds(es, acc) ==
    {i \in DOMAIN es : es[i].exists /\ es[i].account = acc}

EntryInvoices(invs, lk, e) ==
    {i \in DOMAIN invs : invs[i].exists /\ <<e, i>> \in lk}

InvoiceEntries(es, lk, i) ==
    {e \in DOMAIN es : es[e].exists /\ <<e, i>> \in lk}

\* Invoice.total_amount: the sum of the invoice's entries (a sum of amounts of
\* 2 decimals has 2 decimals: the quantize leaves it as it is).
InvoiceTotal(es, lk, i) ==
    SumAmounts(es, InvoiceEntries(es, lk, i))

----------------------------------------------------------------------------
(* Balance calculator *)

Before(es, i, j) ==
    \/ es[i].date < es[j].date
    \/ es[i].date = es[j].date /\ i < j

RECURSIVE SortIds(_, _)
SortIds(es, S) ==
    IF S = {} THEN <<>>
    ELSE LET m == CHOOSE i \in S : \A j \in S \ {i} : Before(es, i, j)
         IN <<m>> \o SortIds(es, S \ {m})

RECURSIVE RunningBalances(_, _, _)
RunningBalances(es, ids, start) ==
    IF ids = <<>> THEN <<>>
    ELSE LET e == es[Head(ids)]
             b == IF e.additive THEN start + e.amount ELSE e.amount
         IN <<[entry |-> Head(ids), balance |-> b]>>
                \o RunningBalances(es, Tail(ids), b)

\* AccountBalance.compute(): the running-balance sequence and the balance.
Compute(es, acc) ==
    LET be == RunningBalances(es, SortIds(es, AccountIds(es, acc)), 0)
    IN [balance_entries |-> be,
        balance |-> IF be = <<>> THEN 0 ELSE be[Len(be)].balance]

\* get_latest_balance_entry().date, 0 for None.  order_by('-date').first():
\* every candidate of the latest date has the same date.
LatestBalanceDate(es, acc) ==
    LET resets == {i \in AccountIds(es, acc) : ~es[i].additive}
    IN IF resets = {} THEN 0
       ELSE LET m == CHOOSE i \in resets :
                        \A j \in resets : es[j].date <= es[i].date
            IN es[m].date

\* get_balance(until_date), until_date = 0 for None.
GetBalance(es, acc, until_date) ==
    LET all == AccountIds(es, acc)
        upto == IF until_date # 0
                THEN {i \in all : es[i].date <= until_date} ELSE all
        latest == LatestBalanceDate(es, acc)
        since == IF latest # 0
                 THEN {i \in upto : es[i].date >= latest} ELSE upto
    IN SumAmounts(es, since)

\* get_entries_since_last_balance(): the ids, in the order of the query.
GetEntriesSinceLastBalance(es, acc) ==
    LET all == AccountIds(es, acc)
        latest == LatestBalanceDate(es, acc)
    IN SortIds(es, IF latest # 0
                   THEN {i \in all : es[i].date >= latest} ELSE all)

\* The loop of get_last_non_overdue_date: every amount is added, and the date
\* of every entry that leaves the sum at or below zero is remembered.
RECURSIVE LastNonOverdue(_, _, _, _)
LastNonOverdue(es, ids, running_balance, last_non_overdue) ==
    IF ids = <<>> THEN last_non_overdue
    ELSE LET r == running_balance + es[Head(ids)].amount
         IN LastNonOverdue(es, Tail(ids), r,
                           IF r <= 0 THEN es[Head(ids)].date
                           ELSE last_non_overdue)

\* AccountBalance.get_last_non_overdue_date(), Account.overdue_since; 0 is
\* None.
GetLastNonOverdueDate(es, acc) ==
    IF GetBalance(es, acc, 0) <= 0 THEN 0
    ELSE LET ids == GetEntriesSinceLastBalance(es, acc)
             found == LastNonOverdue(es, ids, 0, 0)
             latest == LatestBalanceDate(es, acc)
         IN IF found # 0 THEN found
            ELSE IF latest # 0 THEN latest
            ELSE es[Head(ids)].date

----------------------------------------------------------------------------
(* The invoice command *)

DefaultOptions ==
    [delete_drafts |-> FALSE, ignore_drafts |-> FALSE,
     include_all_entries |-> FALSE, invoice_everyone |-> FALSE,
     include_zero_balance |-> FALSE, dry_run |-> FALSE,
     period_start |-> 0, period_end |-> 0]

Drafts(invs) ==
    {i \in DOMAIN invs : invs[i].exists /\ invs[i].status = "draft"}

HasActivitySinceLastInvoice(es, invs, acc) ==
    LET sent == {i \in DOMAIN invs : /\ invs[i].exists
                                     /\ invs[i].account = acc
                                     /\ invs[i].sent_at # 0}
    IN IF sent = {} THEN FALSE
       ELSE LET last_sent == CHOOSE i \in sent :
                                \A j \in sent : invs[j].sent_at <= invs[i].sent_at
            IN \E e \in AccountIds(es, acc) :
                  es[e].date >= invs[last_sent].sent_at

HasActivityInPeriod(es, acc, period_start, period_end) ==
    IF period_start = 0 /\ period_end = 0 THEN FALSE
    ELSE \E e \in AccountIds(es, acc) :
            /\ period_start # 0 => es[e].date >= period_start
            /\ period_end # 0 => es[e].date <= period_end

\* A decision that invoices the accounts that owe money and no others.
ShouldInvoiceOwing(es, invs, acc, balance, opts) ==
    IF opts.invoice_everyone
    THEN (IF opts.include_zero_balance THEN TRUE ELSE balance # 0)
    ELSE balance > 0

ShouldInvoice(es, invs, acc, balance, opts) ==
    IF opts.invoice_everyone
    THEN (IF opts.include_zero_balance THEN TRUE ELSE balance # 0)
    ELSE IF balance > 0 THEN TRUE
    ELSE IF balance = 0 /\ ~opts.include_zero_balance THEN FALSE
    ELSE IF HasActivitySinceLastInvoice(es, invs, acc) THEN TRUE
    ELSE HasActivityInPeriod(es, acc, opts.period_start, opts.period_end)

\* A backward walk that stops at the first zero balance, whatever the sign
\* of the account's balance.
RECURSIVE WalkToFirstZero(_, _, _, _, _, _)
WalkToFirstZero(es, bes, k, zeros_seen, zeros_to_skip, include_all) ==
    IF k = 0 THEN {}
    ELSE IF bes[k].balance = 0 /\ ~include_all THEN {}
    ELSE {bes[k].entry} \cup
         (IF ~es[bes[k].entry].additive THEN {}
          ELSE WalkToFirstZero(es, bes, k - 1, zeros_seen, zeros_to_skip,
                               include_all))

\* The backward walk over the (visible) running-balance sequence bes, from
\* position k down: the entries collected for the invoice.
RECURSIVE Walk(_, _, _, _, _, _)
Walk(es, bes, k, zeros_seen, zeros_to_skip, include_all) ==
    IF k = 0 THEN {}
    ELSE LET b == bes[k]
             at_zero == b.balance = 0 /\ ~include_all
         IN IF at_zero /\ zeros_seen >= zeros_to_skip THEN {}
            ELSE {b.entry} \cup
                 (IF ~es[b.entry].additive THEN {}
                  ELSE Walk(es, bes, k - 1,
                            IF at_zero THEN zeros_seen + 1 ELSE zeros_seen,
                            zeros_to_skip, include_all))

IsVisible(es, b) == es[b.entry].visible

\* balance_entries = [entry for entry in balance_entries if entry.entry.visible]
VisibleEntries(es, bes) ==
    LET Keep(b) == IsVisible(es, b) IN SelectSeq(bes, Keep)

SelectEntries(es, bes, balance, include_all) ==
    LET vis == VisibleEntries(es, bes)
    IN Walk(es, vis, Len(vis), 0, IF balance < 0 THEN 1 ELSE 0, include_all)

\* A handle without the check for invisible entries with an amount.
InvisibleWithAmountUnchecked(es, bes) == {}

InvisibleWithAmount(es, bes) ==
    {k \in DOMAIN bes : ~es[bes[k].entry].visible /\ es[bes[k].entry].amount # 0}

\* The loop "for account, balance_entries, balance in accounts_to_invoice".
RECURSIVE GenerateInvoices(_, _, _, _, _)
GenerateInvoices(es, invs, lk, accts, opts) ==
    IF accts = <<>> THEN [invoices |-> invs, links |-> lk, raised |-> FALSE]
    ELSE LET c == Compute(es, Head(accts))
         IN IF InvisibleWithAmount(es, c.balance_entries) # {}
            THEN [invoices |-> invs, links |-> lk, raised |-> TRUE]
            ELSE LET inv == Len(invs) + 1
                     sel == SelectEntries(es, c.balance_entries, c.balance,
                                          opts.include_all_entries)
                 IN GenerateInvoices(es, Append(invs, NewInvoice(Head(accts))),
                                     lk \cup {<<e, inv>> : e \in sel},
                                     Tail(accts), opts)

\* A check_drafts that lets every run go on.
CheckDraftsAlways(invs, opts) == TRUE

\* check_drafts: whether the run goes on.
CheckDrafts(invs, opts) ==
    \/ Drafts(invs) = {}
    \/ opts.delete_drafts
    \/ opts.ignore_drafts

\* Invoice.objects.filter(status=DRAFT).delete(), with its rows of the
\* many-to-many table.
DeleteDrafts(invs, lk) ==
    [invoices |-> [i \in DOMAIN invs |->
                      IF i \in Drafts(invs)
                      THEN [invs[i] EXCEPT !.exists = FALSE] ELSE invs[i]],
     links |-> {l \in lk : l[2] \notin Drafts(invs)}]

RECURSIVE AccountsToInvoice(_, _, _, _)
AccountsToInvoice(es, invs, accts, opts) ==
    IF accts = <<>> THEN <<>>
    ELSE (IF ShouldInvoice(es, invs, Head(accts),
                           Compute(es, Head(accts)).balance, opts)
          THEN <<Head(accts)>> ELSE <<>>)
         \o AccountsToInvoice(es, invs, Tail(accts), opts)

RECURSIVE SetToSeq(_)
SetToSeq(S) ==
    IF S = {} THEN <<>>
    ELSE LET m == CHOOSE x \in S : \A y \in S : x <= y
         IN <<m>> \o SetToSeq(S \ {m})

\* A block that commits whatever happens.
AtomicNoRollback(before, after, rollback) == after

\* transaction.atomic: what is persisted when the block ends.
Atomic(before, after, rollback) ==
    IF rollback THEN before ELSE after

\* Command.handle of invoice: the tables it leaves and how it ended.
InvoiceHandle(es, invs, lk, opts) ==
    LET before == [invoices |-> invs, links |-> lk]
    IN IF ~CheckDrafts(invs, opts)
       THEN [db |-> before, outcome |-> "drafts_exist", todo |-> <<>>]
       ELSE LET d == IF Drafts(invs) # {} /\ opts.delete_drafts
                     THEN DeleteDrafts(invs, lk) ELSE before
                todo == AccountsToInvoice(es, d.invoices,
                                          SetToSeq(Accounts), opts)
            IN IF todo = <<>>
               THEN [db |-> d, outcome |-> "none_to_invoice", todo |-> todo]
               ELSE LET g == GenerateInvoices(es, d.invoices, d.links, todo, opts)
                        after == [invoices |-> g.invoices, links |-> g.links]
                    IN [db |-> Atomic(before, after, g.raised \/ opts.dry_run),
                        outcome |-> IF g.raised THEN "raised"
                                    ELSE IF opts.dry_run THEN "dry_run"
                                    ELSE "done",
                        todo |-> todo]

----------------------------------------------------------------------------
(* The send command *)

\* Invoice.objects.filter(status=DRAFT), without order_by: the drafts in any
\* order.
DraftOrders(invs) ==
    {q \in [1..Cardinality(Drafts(invs)) -> Drafts(invs)] :
        \A j, k \in DOMAIN q : j # k => q[j] # q[k]}

\* A send loop that goes on after a dispatch has failed and marks every
\* draft sent.
MarkAllSent(invs, queue, n_sent, today) ==
    [i \in DOMAIN invs |->
        IF \E k \in DOMAIN queue : queue[k] = i
        THEN [invs[i] EXCEPT !.status = "sent", !.sent_at = today]
        ELSE invs[i]]

\* A dispatch that books the invoices it has sent as paid.
MarkPaid(invs, queue, n_sent, today) ==
    [i \in DOMAIN invs |->
        IF \E k \in 1..n_sent : k <= Len(queue) /\ queue[k] = i
        THEN [invs[i] EXCEPT !.status = "paid", !.sent_at = today]
        ELSE invs[i]]

\* The loop over the draft invoices, the first n_sent of which are sent: each
\* one is marked sent in a transaction of its own.
RECURSIVE MarkSent(_, _, _, _)
MarkSent(invs, queue, n_sent, today) ==
    IF queue = <<>> \/ n_sent = 0 THEN invs
    ELSE MarkSent([invs EXCEPT ![Head(queue)].status = "sent",
                               ![Head(queue)].sent_at = today],
                  Tail(queue), n_sent - 1, today)

----------------------------------------------------------------------------
(* AccountEntry.clean, save and delete *)

\* clean(): ValidationError for a saved entry of a cancelled invoice.
CleanRejects(invs, lk, e) ==
    \E i \in EntryInvoices(invs, lk, e) : invs[i].status = "cancelled"

\* A delete() that protects the entries of draft invoices only.
DeleteRejectsDrafts(invs, lk, e) ==
    \E i \in EntryInvoices(invs, lk, e) : invs[i].status = "draft"

\* delete(): ProtectedError for an entry of any invoice.
DeleteRejects(invs, lk, e) ==
    EntryInvoices(invs, lk, e) # {}

\* A delete that leaves the row where it is.
KeptEntry(es, e) == es

\* super().delete(): the row goes, its tags with it (CASCADE).
DeletedEntry(es, e) ==
    [es EXCEPT ![e].exists = FALSE, ![e].tags = {}]

\* BaseEvent.refund_entry, on_delete = SET_NULL.
SetNull(refs, e) ==
    [f \in DOMAIN refs |-> IF refs[f] = e THEN 0 ELSE refs[f]]

----------------------------------------------------------------------------
(* Flights and the rules *)

\* The event rows: owning account (0 is NULL), date, duration in minutes,
\* aircraft registration, and whether the row is a Flight or a bare BaseEvent.
FlightRow ==
    <<[account |-> 1, date |-> 1, duration |-> 360, aircraft |-> "OH-650",
       kind |-> "flight"],
      [account |-> 1, date |-> 2, duration |-> 300, aircraft |-> "OH-TOW",
       kind |-> "flight"],
      [account |-> 1, date |-> 2, duration |-> 7, aircraft |-> "OH-650",
       kind |-> "flight"],
      [account |-> 2, date |-> 1, duration |-> 60, aircraft |-> "OH-XXX",
       kind |-> "flight"],
      [account |-> 2, date |-> 2, duration |-> 10, aircraft |-> "OH-1037",
       kind |-> "flight"],
      [account |-> 1, date |-> 2, duration |-> 10, aircraft |-> "OH-1037",
       kind |-> "flight"],
      [account |-> 2, date |-> 2, duration |-> 30, aircraft |-> "OH-1037",
       kind |-> "flight"],
      [account |-> 0, date |-> 2, duration |-> 30, aircraft |-> "OH-1037",
       kind |-> "flight"],
      [account |-> 1, date |-> 2, duration |-> 0, aircraft |-> "",
       kind |-> "event"]>>

FlightIds == DOMAIN FlightRow

\* The flights the runs of the capped rule are given.
CapFlights ==
    {f \in FlightIds : FlightRow[f].kind = "flight" /\ FlightRow[f].aircraft # "OH-1037"}

\* The events the rules of OH-1037 are given.
RuleFlights == FlightIds \ {1, 2, 4}

\* The aircraft filters of make_rules.
F_PURTSIKKA == {"OH-650", "OH-787", "OH-733", "OH-883", "OH-1035", "OH-952"}
F_MOTTI == {"OH-TOW", "OH-1037", "OH-1037-opeale"}
F_1037 == {"OH-1037"}

\* The accounts F_YOUTH lets through: BirthDateFilter with max_age 25.
YouthAccounts == {2}

\* OH-1037: 113 euros an hour, 25 % off for the young, in cents; the
\* minimum billed duration, in minutes.
Price1037 == 11300
Price1037Youth == 8475
MinDuration == 15

\* Description templates: the default of FlightRule and those of make_rules.
T_DEFAULT == "Lento, %(registration)s, %(duration)d min"
T_YOUTH == "Lento {aircraft}, {duration} min (nuorisoalennus 25%)"
T_FLIGHT == "Lento {aircraft}, {duration} min"
T_KALUSTO == "Kalustomaksu {aircraft}, {duration} min"

\* template % context, the context a dict: TRUE when a description comes
\* out, FALSE when the operator raises ValueError (the "%" of "25%)" starts
\* a conversion whose type character is ")").
PercentFormats ==
    (T_DEFAULT :> TRUE) @@ (T_YOUTH :> FALSE) @@ (T_FLIGHT :> TRUE)
        @@ (T_KALUSTO :> TRUE)

\* What a rule without a filter on the pilot lets through.
AnyAccount == Accounts \cup {0}

\* Kalustomaksu: 10 euros an hour, capped at 90 euros, in cents.
KalustoPrice == 1000
KalustoCap == 9000
CapTag == "cap:kalustomaksu_hintakatto_2024"

\* Config.NO_INVOICING_REFERENCE_IDS
NO_INVOICING_REFERENCE_IDS == {}

\* A quantize that drops the digits after the second decimal.
QuantizeDown(n, d) ==
    IF n >= 0 THEN n \div d ELSE -((-n) \div d)

\* Decimal.quantize(Decimal('.01'), ROUND_HALF_UP) of n / d cents.
QuantizeHalfUp(n, d) ==
    IF n >= 0 THEN (2 * n + d) \div (2 * d)
    ELSE -((2 * (-n) + d) \div (2 * d))

EventEntries(es, f) ==
    {e \in DOMAIN es : es[e].exists /\ es[e].event = f}

\* FlightRule.invoice with an hourly price, on the event object as it is in
\* memory (its duration is d).  In the order of the code: the kind of the
\* event, the filters (accounts is what the filters on the pilot let
\* through), the description, the owning account; then one entry, saved
\* (save() quantizes the amount).
FlightRuleOn(es, f, d, price, filters, accounts, template) ==
    IF \/ FlightRow[f].kind # "flight"
       \/ FlightRow[f].aircraft \notin filters
       \/ FlightRow[f].account \notin accounts
    THEN [entries |-> es, new |-> <<>>, raised |-> FALSE]
    ELSE IF ~PercentFormats[template]
    THEN [entries |-> es, new |-> <<>>, raised |-> TRUE]
    ELSE IF FlightRow[f].account = 0
    THEN [entries |-> es, new |-> <<>>, raised |-> FALSE]
    ELSE [entries |->
              Append(es, NewEntry(FlightRow[f].account, FlightRow[f].date,
                                  QuantizeHalfUp(d * price, 60), TRUE, f)),
          new |-> <<Len(es) + 1>>, raised |-> FALSE]

\* FlightRule.invoice with aircraft filters only, on the event as stored.
FlightRule(es, f, price, filters) ==
    FlightRuleOn(es, f, FlightRow[f].duration, price, filters, AnyAccount,
                 T_KALUSTO)

\* AllRules.invoice over the two inner rules of the kalustomaksu cap.
AllRules(es, f) ==
    LET a == FlightRule(es, f, KalustoPrice, F_PURTSIKKA)
        b == FlightRule(a.entries, f, KalustoPrice, F_MOTTI)
    IN [entries |-> b.entries, new |-> a.new \o b.new]

\* MinimumDurationRule.invoice around a FlightRule, for F_MOTTI and 15
\* minutes.  d is the event's duration on entry; fault: the database fails
\* when the wrapped rule saves its entry.  The duration is put back by a plain
\* statement after the wrapped rule's call, which an exception skips.
\* (Descriptions, and so the minimum-billing text, are not part of the rows.)
MinimumDurationRule(es, f, d, price, filters, accounts, template, fault) ==
    LET applies == /\ FlightRow[f].kind = "flight"
                   /\ FlightRow[f].aircraft \in F_MOTTI
                   /\ d < MinDuration
        seen == IF applies THEN MinDuration ELSE d
        lines == FlightRuleOn(es, f, seen, price, filters, accounts, template)
    IN IF lines.raised \/ (fault /\ lines.new # <<>>)
       THEN [entries |-> lines.entries, new |-> <<>>, raised |-> TRUE,
             seen |-> seen, duration |-> seen]
       ELSE [entries |-> lines.entries, new |-> lines.new, raised |-> FALSE,
             seen |-> seen, duration |-> d]

\* A rule list evaluated to its end, whatever the rules return.
FirstRuleAll(es, f, d, fail_at, template) ==
    LET a == MinimumDurationRule(es, f, d, Price1037Youth, F_1037,
                                 YouthAccounts, template, fail_at = 1)
        b == MinimumDurationRule(a.entries, f, a.duration, Price1037, F_1037,
                                 AnyAccount, T_FLIGHT, fail_at = 2)
    IN IF a.raised THEN a
       ELSE [b EXCEPT !.new = a.new \o b.new]

\* FirstRule.invoice over the two rules of OH-1037 in make_rules: the youth
\* price, then the normal price.  template is the description template the
\* youth rule was built with; fail_at = k > 0: the database fails in rule k.
FirstRule(es, f, d, fail_at, template) ==
    LET a == MinimumDurationRule(es, f, d, Price1037Youth, F_1037,
                                 YouthAccounts, template, fail_at = 1)
    IN IF a.raised \/ a.new # <<>> THEN a
       ELSE MinimumDurationRule(a.entries, f, a.duration, Price1037, F_1037,
                                AnyAccount, T_FLIGHT, fail_at = 2)

\* CappedRule.get_accumulated_amount: the year is the clock's.
GetAccumulatedAmount(es, acc, clock) ==
    SumAmounts(es, {e \in AccountIds(es, acc) :
                       Year(es[e].date) = Year(clock) /\ CapTag \in es[e].tags})

\* A clipping that lets the full amount through below the cap.
CappedAmountUnclipped(accumulated, amount) ==
    IF accumulated >= KalustoCap THEN 0 ELSE amount

\* _filter_entries: the amount an entry gets, given what has accumulated.
CappedAmount(accumulated, amount) ==
    IF accumulated >= KalustoCap THEN 0
    ELSE IF accumulated + amount > KalustoCap
         THEN KalustoCap - accumulated
         ELSE amount

\* _filter_entries: whether the cap note is appended to the description.
CapNote(accumulated, amount) ==
    accumulated >= KalustoCap \/ accumulated + amount > KalustoCap

\* CappedRule._filter_entries.  With drop_over_cap an entry over the cap is
\* deleted, and entry.tags.create on the deleted row (its pk is None) raises.
RECURSIVE FilterEntries(_, _, _, _, _, _)
FilterEntries(es, invs, lk, new, clock, drop_over_cap) ==
    IF new = <<>> THEN [entries |-> es, raised |-> FALSE]
    ELSE LET e == Head(new)
             accumulated == GetAccumulatedAmount(es, es[e].account, clock)
             amount == CappedAmount(accumulated, es[e].amount)
             note == es[e].note \/ CapNote(accumulated, es[e].amount)
         IN IF accumulated >= KalustoCap /\ drop_over_cap
            THEN [entries |-> IF DeleteRejects(invs, lk, e) THEN es
                              ELSE DeletedEntry(es, e),
                  raised |-> TRUE]
            ELSE FilterEntries([es EXCEPT ![e].amount = amount,
                                          ![e].note = note,
                                          ![e].tags = @ \cup {CapTag}],
                               invs, lk, Tail(new), clock, drop_over_cap)

CappedRule(es, invs, lk, f, clock, drop_over_cap) ==
    LET inner == AllRules(es, f)
    IN FilterEntries(inner.entries, invs, lk, inner.new, clock, drop_over_cap)

\* RuleEngine.process_event, the engine holding the capped kalustomaksu rule.
ProcessEvent(es, invs, lk, f, clock, drop_over_cap) ==
    IF f \in NO_INVOICING_REFERENCE_IDS THEN [entries |-> es, raised |-> FALSE]
    ELSE CappedRule(es, invs, lk, f, clock, drop_over_cap)

\* RuleEngine.process_events over the queue of events.  fail_at = k > 0: the
\* database fails on event k, after the inner rule has saved its entry.
RECURSIVE ProcessEvents(_, _, _, _, _, _, _)
ProcessEvents(es, invs, lk, queue, clock, drop_over_cap, fail_at) ==
    IF queue = <<>> THEN [entries |-> es, raised |-> FALSE]
    ELSE IF fail_at = 1
         THEN [entries |-> AllRules(es, Head(queue)).entries, raised |-> TRUE]
         ELSE LET r == ProcessEvent(es, invs, lk, Head(queue), clock,
                                    drop_over_cap)
              IN IF r.raised THEN r
                 ELSE ProcessEvents(r.entries, invs, lk, Tail(queue), clock,
                                    drop_over_cap, fail_at - 1)

\* A query without the account_entries__isnull filter.
UnprocessedAll(es, fl) == fl

\* processevents: Flight.objects.filter(account_entries__isnull=True)
Unprocessed(es, fl) ==
    {f \in fl : EventEntries(es, f) = {}}

\* order_by('account_id', 'date'): any order of the rows that is sorted by
\* account and date (rows that tie come in either order).
EventOrders(S) ==
    LET n == Cardinality(S)
    IN {q \in [1..n -> S] :
           /\ \A i, j \in 1..n : i # j => q[i] # q[j]
           /\ \A i, j \in 1..n : i < j =>
                 \/ FlightRow[q[i]].account < FlightRow[q[j]].account
                 \/ /\ FlightRow[q[i]].account = FlightRow[q[j]].account
                    /\ FlightRow[q[i]].date <= FlightRow[q[j]].date}

\* A has_been_refunded that never sees the refund.
HasBeenRefundedNever(refs, f) == FALSE

\* BaseEvent.has_been_refunded
HasBeenRefunded(refs, f) ==
    refs[f] # 0

\* refund_event: the charges of the event and their total.
ChargeTotal(es, f) ==
    SumAmounts(es, {e \in EventEntries(es, f) : es[e].additive})

----------------------------------------------------------------------------
\* The processes that may run a batch of events at the same time.
Workers == {1, 2}

NoBatches == [w \in Workers |-> [active |-> FALSE, queue |-> <<>>, written |-> <<>>]]

Init ==
    /\ entries = <<>>
    /\ invoices = <<>>
    /\ links = {}
    /\ flights = {}
    /\ refund_entry = [f \in FlightIds |-> 0]
    /\ now = 2
    /\ last = [op |-> "init"]
    /\ ghost = [ignored_drafts |-> FALSE, refunded |-> {}, refunds |-> {}]
    /\ batches = NoBatches
    /\ duration = [f \in FlightIds |-> FlightRow[f].duration]
    /\ account_table = Accounts

\* importentries: one row, AccountEntry.objects.create(...), additive by default.
ImportEntry(acc, d, amt) ==
    /\ Len(entries) < MaxEntries
    /\ entries' = Append(entries, NewEntry(acc, d, amt, TRUE, 0))
    /\ last' = [op |-> "importentries"]
    /\ UNCHANGED <<flights, invoices, links, refund_entry, now, ghost,
                   batches, duration, account_table>>

\* importbalances: one row, a statement balance, additive = False.
ImportBalance(acc, d, amt) ==
    /\ Len(entries) < MaxEntries
    /\ entries' = Append(entries, NewEntry(acc, d, amt, FALSE, 0))
    /\ last' = [op |-> "importbalances"]
    /\ UNCHANGED <<flights, invoices, links, refund_entry, now, ghost,
                   batches, duration, account_table>>

\* The admin's change form of an entry: AccountEntry.save().
AdminSaveEntry(e, amt, vis) ==
    /\ e \in DOMAIN entries /\ entries[e].exists
    /\ LET rejected == CleanRejects(invoices, links, e)
       IN /\ entries' = IF rejected THEN entries
                        ELSE [entries EXCEPT ![e].amount = amt, ![e].visible = vis]
          /\ last' = [op |-> "save", entry |-> e, amount |-> amt,
                      rejected |-> rejected]
    /\ UNCHANGED <<flights, invoices, links, refund_entry, now, ghost,
                   batches, duration, account_table>>

\* AccountEntry.delete() of one entry (the admin's delete view).
DeleteEntry(e) ==
    /\ e \in DOMAIN entries /\ entries[e].exists
    /\ LET rejected == DeleteRejects(invoices, links, e)
       IN /\ entries' = IF rejected THEN entries ELSE DeletedEntry(entries, e)
          /\ refund_entry' = IF rejected THEN refund_entry
                             ELSE SetNull(refund_entry, e)
          /\ last' = [op |-> "delete", entry |-> e, rejected |-> rejected]
    /\ UNCHANGED <<flights, invoices, links, now, ghost, batches, duration,
                   account_table>>

\* manage.py invoice, with the options opts.
InvoiceRun(opts) ==
    LET r == InvoiceHandle(entries, invoices, links, opts)
    IN /\ Len(r.db.invoices) <= MaxInvoices
       /\ invoices' = r.db.invoices
       /\ links' = r.db.links
       /\ last' = [op |-> "invoice", opts |-> opts, outcome |-> r.outcome,
                   first |-> Len(invoices) + 1, todo |-> r.todo]
       /\ ghost' = [ghost EXCEPT !.ignored_drafts = @ \/ opts.ignore_drafts]
       /\ UNCHANGED <<flights, entries, refund_entry, now, batches, duration,
                   account_table>>

\* manage.py sendinvoices --all-accounts, the drafts in the order the query
\* gives them (it asks for none); the mail of invoice n_sent + 1 fails when
\* there is one.
SendInvoices(n_sent) ==
    \E queue \in DraftOrders(invoices) :
       /\ queue # <<>>
       /\ n_sent \in 0..Len(queue)
       /\ invoices' = MarkSent(invoices, queue, n_sent, now)
       /\ last' = [op |-> "sendinvoices", sent |-> n_sent,
                   raised |-> n_sent < Len(queue),
                   failed |-> IF n_sent < Len(queue) THEN queue[n_sent + 1]
                              ELSE 0]
       /\ UNCHANGED <<flights, entries, links, refund_entry, now, ghost,
                      batches, duration, account_table>>

\* External reconciliation (the admin's change form of an invoice).
AdminSetInvoiceStatus(i, st) ==
    /\ i \in DOMAIN invoices /\ invoices[i].exists
    /\ invoices[i].status # st
    /\ invoices' = [invoices EXCEPT ![i].status = st]
    /\ last' = [op |-> "reconcile"]
    /\ UNCHANGED <<flights, entries, links, refund_entry, now, ghost,
                   batches, duration, account_table>>

\* The flight import brings in one Flight row.
ImportFlight(f) ==
    /\ f \notin flights
    /\ flights' = flights \cup {f}
    /\ last' = [op |-> "importflights"]
    /\ UNCHANGED <<entries, invoices, links, refund_entry, now, ghost,
                   batches, duration, account_table>>

\* manage.py processevents, the engine's cap built with drop_over_cap.
ProcessEventsCommand(drop_over_cap) ==
    /\ \E queue \in EventOrders(Unprocessed(entries, flights)) :
       \E fail_at \in 0..Len(queue) :
          LET r == ProcessEvents(entries, invoices, links, queue, now,
                                drop_over_cap, fail_at)
          IN /\ Len(r.entries) <= MaxLedger
             /\ entries' = Atomic(entries, r.entries, r.raised)
             /\ last' = [op |-> "processevents", raised |-> r.raised,
                         saved |-> Len(r.entries) - Len(entries),
                         rerun |-> last.op = "processevents" /\ ~last.raised,
                         drop |-> drop_over_cap, fault |-> fail_at # 0]
    /\ UNCHANGED <<invoices, links, flights, refund_entry, now, ghost,
                   batches, duration, account_table>>

\* RuleEngine.process_event called on one event, whatever entries it has.
ProcessEventDirect(f) ==
    /\ f \in flights
    /\ LET r == ProcessEvent(entries, invoices, links, f, now, FALSE)
       IN /\ Len(r.entries) <= MaxLedger
          /\ entries' = Atomic(entries, r.entries, r.raised)
          /\ last' = [op |-> "process_event", event |-> f, raised |-> r.raised]
    /\ UNCHANGED <<invoices, links, flights, refund_entry, now, ghost,
                   batches, duration, account_table>>

\* The admin action refund_events on one event: RuleEngine.refund_event.
RefundEvent(f) ==
    /\ f \in flights
    /\ Len(entries) < MaxLedger
    /\ LET total == ChargeTotal(entries, f)
           refund == NewEntry(FlightRow[f].account, now, -total, TRUE, f)
           none == HasBeenRefunded(refund_entry, f) \/ total = 0
       IN /\ entries' = IF none THEN entries ELSE Append(entries, refund)
          /\ refund_entry' = IF none THEN refund_entry
                             ELSE [refund_entry EXCEPT ![f] = Len(entries) + 1]
          /\ last' = [op |-> "refund_event", event |-> f,
                      returned |-> IF none THEN 0 ELSE Len(entries) + 1]
          /\ ghost' = IF none THEN ghost
                      ELSE [ghost EXCEPT !.refunded = @ \cup {f},
                                         !.refunds = @ \cup {Len(entries) + 1}]
    /\ UNCHANGED <<invoices, links, flights, now, batches, duration, account_table>>

\* The admin action remove_refunds on one event.
RemoveRefunds(f) ==
    /\ f \in flights
    /\ HasBeenRefunded(refund_entry, f)
    /\ LET e == refund_entry[f]
           rejected == DeleteRejects(invoices, links, e)
       IN /\ entries' = IF rejected THEN entries ELSE DeletedEntry(entries, e)
          /\ refund_entry' = IF rejected THEN refund_entry
                             ELSE [SetNull(refund_entry, e) EXCEPT ![f] = 0]
          /\ last' = [op |-> "remove_refunds", entry |-> e,
                      rejected |-> rejected]
    /\ UNCHANGED <<invoices, links, flights, now, ghost, batches, duration,
                   account_table>>

Tick ==
    /\ now + 1 \in ClockDates
    /\ now' = now + 1
    /\ last' = [op |-> "tick"]
    /\ UNCHANGED <<flights, entries, invoices, links, refund_entry, ghost,
                   batches, duration, account_table>>

\* RuleEngine.process_event on the event object f held in memory, the engine
\* holding the FirstRule of OH-1037, its youth rule built with the template
\* of make_rules or with one in the style of FlightRule's default.
FirstRuleInvoice(f) ==
    /\ f \in flights
    /\ \E fail_at \in 0..2 : \E template \in {T_YOUTH, T_DEFAULT} :
          LET r == FirstRule(entries, f, duration[f], fail_at, template)
          IN /\ Len(r.entries) <= MaxLedger
             /\ entries' = Atomic(entries, r.entries, r.raised)
             /\ duration' = [duration EXCEPT ![f] = r.duration]
             /\ last' = [op |-> "first_rule", event |-> f,
                         raised |-> r.raised, seen |-> r.seen,
                         lines |-> r.new, template |-> template,
                         fault |-> fail_at # 0]
    /\ UNCHANGED <<invoices, links, flights, refund_entry, now, ghost, batches,
                   account_table>>

\* A query fetches the Flight row again: a new object, with the stored
\* duration.
FetchEvent(f) ==
    /\ f \in flights
    /\ duration[f] # FlightRow[f].duration
    /\ duration' = [duration EXCEPT ![f] = FlightRow[f].duration]
    /\ last' = [op |-> "fetch", event |-> f]
    /\ UNCHANGED <<entries, invoices, links, flights, refund_entry, now, ghost,
                   batches, account_table>>

\* A process starts a batch: the events it has found unprocessed, in the
\* order of the query, inside a transaction of its own.
BeginBatch(w) ==
    /\ ~batches[w].active
    /\ \E S \in SUBSET Unprocessed(entries, flights) :
          /\ S # {}
          /\ \E queue \in EventOrders(S) :
                batches' = [batches EXCEPT
                               ![w] = [active |-> TRUE, queue |-> queue,
                                       written |-> <<>>]]
    /\ last' = [op |-> "begin_batch", worker |-> w]
    /\ UNCHANGED <<entries, invoices, links, flights, refund_entry, now, ghost,
                   duration, account_table>>

\* RuleEngine.process_events, one event of the loop of process w.  Its
\* queries see the committed rows and the rows of its own transaction;
\* nothing in the code locks the account or its tagged entries.
StepBatch(w) ==
    /\ batches[w].active
    /\ batches[w].queue # <<>>
    /\ LET view == entries \o batches[w].written
           r == ProcessEvent(view, invoices, links, Head(batches[w].queue),
                             now, FALSE)
       IN /\ Len(r.entries) <= MaxLedger
          /\ batches' = [batches EXCEPT
                            ![w].queue = Tail(@),
                            ![w].written = SubSeq(r.entries, Len(entries) + 1,
                                                  Len(r.entries))]
    /\ last' = [op |-> "step_batch", worker |-> w]
    /\ UNCHANGED <<entries, invoices, links, flights, refund_entry, now, ghost,
                   duration, account_table>>

\* The loop is over and the atomic block commits.
CommitBatch(w) ==
    /\ batches[w].active
    /\ batches[w].queue = <<>>
    /\ Len(entries) + Len(batches[w].written) <= MaxLedger
    /\ entries' = entries \o batches[w].written
    /\ batches' = [batches EXCEPT ![w] = NoBatches[w]]
    /\ last' = [op |-> "commit_batch", worker |-> w]
    /\ UNCHANGED <<invoices, links, flights, refund_entry, now, ghost, duration,
                   account_table>>

\* The database refuses the transaction (a lock that is not granted, a
\* serialization failure): the exception rolls the atomic block back.
AbortBatch(w) ==
    /\ batches[w].active
    /\ batches' = [batches EXCEPT ![w] = NoBatches[w]]
    /\ last' = [op |-> "abort_batch", worker |-> w]
    /\ UNCHANGED <<entries, invoices, links, flights, refund_entry, now, ghost,
                   duration, account_table>>

----------------------------------------------------------------------------
(* The ledger and the balance calculator *)

NextBalance ==
    \/ \E r \in EntryRows : ImportEntry(r[1], r[2], r[3])
    \/ \E r \in BalanceRows : ImportBalance(r[1], r[2], r[3])
    \/ \E e \in 1..MaxEntries : DeleteEntry(e)

SpecBalance == Init /\ [][NextBalance]_vars

(* The invoice command and the send command *)

InvoiceOptions ==
    {DefaultOptions,
     [DefaultOptions EXCEPT !.delete_drafts = TRUE],
     [DefaultOptions EXCEPT !.ignore_drafts = TRUE],
     [DefaultOptions EXCEPT !.invoice_everyone = TRUE],
     [DefaultOptions EXCEPT !.include_all_entries = TRUE]}

\* The ledgers the invoice command is run on: what the imports and the
\* admin's change form (which sets visible) leave in account_entries.
\* <<account, date, amount, additive, visible>>
LedgerRows ==
    {<<1, 1, 5000, TRUE, TRUE>>, <<1, 2, 2000, TRUE, TRUE>>,
     <<1, 2, -5000, TRUE, TRUE>>, <<2, 1, 5000, TRUE, TRUE>>,
     <<1, 2, 2000, FALSE, TRUE>>, <<1, 1, 0, FALSE, TRUE>>,
     <<1, 1, 0, FALSE, FALSE>>, <<1, 2, 0, TRUE, FALSE>>}

LedgerEntry(r) ==
    [NewEntry(r[1], r[2], r[3], r[4], 0) EXCEPT !.visible = r[5]]

Ledgers ==
    UNION {[1..n -> {LedgerEntry(r) : r \in LedgerRows}] : n \in 0..MaxEntries}

InitInvoice ==
    /\ entries \in Ledgers
    /\ invoices = <<>>
    /\ links = {}
    /\ flights = {}
    /\ refund_entry = [f \in FlightIds |-> 0]
    /\ now = 2
    /\ last = [op |-> "init"]
    /\ ghost = [ignored_drafts |-> FALSE, refunded |-> {}, refunds |-> {}]
    /\ batches = NoBatches
    /\ duration = [f \in FlightIds |-> FlightRow[f].duration]
    /\ account_table = Accounts

NextInvoice ==
    \/ \E opts \in InvoiceOptions : InvoiceRun(opts)
    \/ \E n \in 0..MaxInvoices : SendInvoices(n)

SpecInvoice == InitInvoice /\ [][NextInvoice]_vars

(* The invoice command: runs that raise and dry runs *)

RunOptions ==
    {DefaultOptions,
     [DefaultOptions EXCEPT !.invoice_everyone = TRUE],
     [DefaultOptions EXCEPT !.delete_drafts = TRUE],
     [DefaultOptions EXCEPT !.dry_run = TRUE],
     [DefaultOptions EXCEPT !.dry_run = TRUE, !.delete_drafts = TRUE]}

\* <<account, date, amount, additive, visible>>; account 2 can have an
\* invisible entry with an amount.
RunRows ==
    {<<1, 1, 5000, TRUE, TRUE>>, <<1, 2, -5000, TRUE, TRUE>>,
     <<1, 2, 0, TRUE, FALSE>>, <<2, 1, 5000, TRUE, TRUE>>,
     <<2, 2, 2000, TRUE, FALSE>>}

RunLedgers ==
    UNION {[1..n -> {LedgerEntry(r) : r \in RunRows}] : n \in 0..MaxEntries}

InitRun ==
    /\ entries \in RunLedgers
    /\ invoices = <<>>
    /\ links = {}
    /\ flights = {}
    /\ refund_entry = [f \in FlightIds |-> 0]
    /\ now = 2
    /\ last = [op |-> "init"]
    /\ ghost = [ignored_drafts |-> FALSE, refunded |-> {}, refunds |-> {}]
    /\ batches = NoBatches
    /\ duration = [f \in FlightIds |-> FlightRow[f].duration]
    /\ account_table = Accounts

NextRun ==
    \/ \E opts \in RunOptions : InvoiceRun(opts)
    \/ \E n \in 0..MaxInvoices : SendInvoices(n)

SpecRun == InitRun /\ [][NextRun]_vars

\* The invoice command deciding on accounts in credit, with and without a
\* period, after invoices were sent and payments came in.
DecideOptions ==
    {[DefaultOptions EXCEPT !.delete_drafts = TRUE, !.invoice_everyone = e,
                            !.include_zero_balance = z,
                            !.period_start = p[1], !.period_end = p[2]] :
        e \in BOOLEAN, z \in BOOLEAN,
        p \in {<<0, 0>>, <<2, 0>>, <<0, 1>>}}

DecideRows == {1} \X {1, 2} \X {-5000, 5000}

NextDecide ==
    \/ \E opts \in DecideOptions : InvoiceRun(opts)
    \/ \E n \in 0..MaxInvoices : SendInvoices(n)
    \/ \E r \in DecideRows : ImportEntry(r[1], r[2], r[3])

SpecDecide == Init /\ [][NextDecide]_vars

\* The invoice command on ledgers of one account with balances of zero on
\* the way.  <<account, date, amount, additive, visible>>
WalkRows ==
    {<<1, 1, 5000, TRUE, TRUE>>, <<1, 1, -5000, TRUE, TRUE>>,
     <<1, 2, 0, TRUE, TRUE>>, <<1, 2, -2000, TRUE, TRUE>>,
     <<1, 2, 2000, FALSE, TRUE>>}

WalkLedgers ==
    UNION {[1..n -> {LedgerEntry(r) : r \in WalkRows}] : n \in 0..MaxLedger}

WalkOptions ==
    {[DefaultOptions EXCEPT !.invoice_everyone = TRUE],
     [DefaultOptions EXCEPT !.invoice_everyone = TRUE, !.delete_drafts = TRUE],
     [DefaultOptions EXCEPT !.invoice_everyone = TRUE, !.delete_drafts = TRUE,
                            !.include_all_entries = TRUE]}

InitWalk ==
    /\ entries \in WalkLedgers
    /\ invoices = <<>>
    /\ links = {}
    /\ flights = {}
    /\ refund_entry = [f \in FlightIds |-> 0]
    /\ now = 2
    /\ last = [op |-> "init"]
    /\ ghost = [ignored_drafts |-> FALSE, refunded |-> {}, refunds |-> {}]
    /\ batches = NoBatches
    /\ duration = [f \in FlightIds |-> FlightRow[f].duration]
    /\ account_table = Accounts

NextWalk == \E opts \in WalkOptions : InvoiceRun(opts)

SpecWalk == InitWalk /\ [][NextWalk]_vars

(* The rule engine, the cap and refunds *)

Next ==
    \/ \E f \in CapFlights : ImportFlight(f)
    \/ Tick
    \/ \E drop_over_cap \in BOOLEAN : ProcessEventsCommand(drop_over_cap)
    \/ \E f \in FlightIds : ProcessEventDirect(f)
    \/ \E f \in FlightIds : RefundEvent(f)
    \/ \E f \in FlightIds : RemoveRefunds(f)

Spec == Init /\ [][Next]_vars

\* Runs of processevents, refunds and their removal, with nothing else
\* touching the ledger.
NextRefunds ==
    \/ \E f \in CapFlights : ImportFlight(f)
    \/ Tick
    \/ \E drop_over_cap \in BOOLEAN : ProcessEventsCommand(drop_over_cap)
    \/ \E f \in FlightIds : RefundEvent(f)
    \/ \E f \in FlightIds : RemoveRefunds(f)

SpecRefunds == Init /\ [][NextRefunds]_vars

(* The guards of AccountEntry: entries with invoices and refunds *)

\* Two processes running batches of events at the same time.
NextConcurrent ==
    \/ \E f \in CapFlights : ImportFlight(f)
    \/ \E w \in Workers : BeginBatch(w)
    \/ \E w \in Workers : StepBatch(w)
    \/ \E w \in Workers : CommitBatch(w)
    \/ \E w \in Workers : AbortBatch(w)

SpecConcurrent == Init /\ [][NextConcurrent]_vars

\* The rules of OH-1037 on their own.
NextRules ==
    \/ \E f \in RuleFlights : ImportFlight(f)
    \/ \E f \in RuleFlights : FirstRuleInvoice(f)
    \/ \E f \in RuleFlights : FetchEvent(f)

SpecRules == Init /\ [][NextRules]_vars

\* The ledger processevents leaves of flights 1, 2 and 3: 60.00, 30.00
\* (clipped to the cap) and 0.00 (over the cap).
GuardFlights == {1, 2, 3}
SaveAmounts == {0, 2000}
ReconciledStatuses == {"paid", "cancelled"}

InitGuards ==
    /\ entries = ProcessEvents(<<>>, <<>>, {}, <<1, 2, 3>>, 2, FALSE, 0).entries
    /\ invoices = <<>>
    /\ links = {}
    /\ flights = GuardFlights
    /\ refund_entry = [f \in FlightIds |-> 0]
    /\ now = 2
    /\ last = [op |-> "init"]
    /\ ghost = [ignored_drafts |-> FALSE, refunded |-> {}, refunds |-> {}]
    /\ batches = NoBatches
    /\ duration = [f \in FlightIds |-> FlightRow[f].duration]
    /\ account_table = Accounts

\* Saving entries of invoices.
NextSave ==
    \/ InvoiceRun(DefaultOptions)
    \/ \E n \in 0..MaxInvoices : SendInvoices(n)
    \/ \E i \in 1..MaxInvoices : \E st \in ReconciledStatuses :
          AdminSetInvoiceStatus(i, st)
    \/ \E e \in 1..MaxLedger : \E amt \in SaveAmounts : AdminSaveEntry(e, amt, TRUE)

SpecSave == InitGuards /\ [][NextSave]_vars

\* Deleting entries of invoices.
NextDelete ==
    \/ InvoiceRun(DefaultOptions)
    \/ \E n \in 0..MaxInvoices : SendInvoices(n)
    \/ \E i \in 1..MaxInvoices : \E st \in ReconciledStatuses :
          AdminSetInvoiceStatus(i, st)
    \/ \E e \in 1..MaxLedger : DeleteEntry(e)
    \/ \E f \in FlightIds : RefundEvent(f)
    \/ \E f \in FlightIds : RemoveRefunds(f)
    \/ ProcessEventsCommand(TRUE)

SpecDelete == InitGuards /\ [][NextDelete]_vars

----------------------------------------------------------------------------
(* The import commands run on whole files *)

\* What a command has done so far inside its transaction: the tables and the
\* counters of handle().
ImportState(es, fl, accts) ==
    [entries |-> es, flights |-> fl, accounts |-> accts,
     count |-> 0, failed |-> 0, duplicates |-> 0, skipped |-> 0]

IsDuplicate(es, acc, d, amt, add) ==
    \E e \in DOMAIN es :
        /\ es[e].exists /\ es[e].account = acc /\ es[e].date = d
        /\ es[e].amount = amt /\ es[e].additive = add

\* importentries, the body of "for row in reader": the date, the account,
\* the amount, the duplicate check, AccountEntry.objects.create.
ImportEntriesRow(st, row) ==
    IF row.fault = "date" \/ row.account \notin st.accounts
          \/ row.fault = "amount"
    THEN [st EXCEPT !.failed = @ + 1]
    ELSE IF IsDuplicate(st.entries, row.account, row.date, row.amount, TRUE)
    THEN [st EXCEPT !.duplicates = @ + 1]
    ELSE [st EXCEPT !.entries = Append(@, NewEntry(row.account, row.date,
                                                  row.amount, TRUE, 0)),
                    !.count = @ + 1]

\* importbalances, the body of "for row in reader": with --force an unknown
\* account is created before the balance is parsed.
ImportBalancesRow(st, row, force) ==
    IF row.fault = "date" \/ (row.account \notin st.accounts /\ ~force)
    THEN [st EXCEPT !.failed = @ + 1]
    ELSE LET known == [st EXCEPT !.accounts = @ \cup {row.account}]
         IN IF row.fault = "amount"
            THEN [known EXCEPT !.failed = @ + 1]
            ELSE IF IsDuplicate(st.entries, row.account, row.date,
                                row.amount, FALSE)
            THEN [known EXCEPT !.duplicates = @ + 1]
            ELSE [known EXCEPT
                     !.entries = Append(@, NewEntry(row.account, row.date,
                                                   row.amount, FALSE, 0)),
                     !.count = @ + 1]

\* importnda, the body of "for txn in transactions": the filter, the account,
\* the duplicate check, the entry of the payment with the sign turned.
ImportNdaRow(st, txn) ==
    IF txn.amount <= 0 THEN [st EXCEPT !.skipped = @ + 1]
    ELSE IF txn.account \notin st.accounts THEN [st EXCEPT !.failed = @ + 1]
    ELSE IF IsDuplicate(st.entries, txn.account, txn.date, -txn.amount, TRUE)
    THEN [st EXCEPT !.duplicates = @ + 1]
    ELSE [st EXCEPT !.entries = Append(@, NewEntry(txn.account, txn.date,
                                                  -txn.amount, TRUE, 0)),
                    !.count = @ + 1]

\* importflights, the body of "for row in reader" of process_file: the
\* aircraft, the account, the checks that --force turns into warnings, the
\* duplicate check, flight.save().
ImportFlightsRow(st, row, force) ==
    LET reference == FlightRow[row.flight].account
    IN IF row.fault = "aircraft"
          \/ (reference \notin NO_INVOICING_REFERENCE_IDS
                 /\ reference \notin st.accounts)
          \/ (row.fault = "warning" /\ ~force)
       THEN [st EXCEPT !.failed = @ + 1]
       ELSE IF row.flight \in st.flights
       THEN [st EXCEPT !.duplicates = @ + 1]
       ELSE [st EXCEPT !.flights = @ \cup {row.flight}, !.count = @ + 1]

ImportRow(st, row, command, force) ==
    CASE command = "importentries" -> ImportEntriesRow(st, row)
      [] command = "importbalances" -> ImportBalancesRow(st, row, force)
      [] command = "importnda" -> ImportNdaRow(st, row)
      [] command = "importflights" -> ImportFlightsRow(st, row, force)

\* The loop over the rows of one file.
RECURSIVE ImportRows(_, _, _, _)
ImportRows(st, rows, command, force) ==
    IF rows = <<>> THEN st
    ELSE ImportRows(ImportRow(st, Head(rows), command, force), Tail(rows),
                    command, force)

\* The loop over the files.  A file of importentries or importflights with a
\* column missing raises out of handle(); a file importnda cannot read is
\* logged and left out, with the counters of that file.
RECURSIVE ImportFiles(_, _, _, _)
ImportFiles(st, files, command, force) ==
    IF files = <<>> THEN [st |-> st, raised |-> FALSE]
    ELSE IF ~Head(files).readable
    THEN IF command = "importnda"
         THEN ImportFiles(st, Tail(files), command, force)
         ELSE [st |-> st, raised |-> TRUE]
    ELSE ImportFiles(ImportRows(st, Head(files).rows, command, force),
                     Tail(files), command, force)

\* Command.handle of an import command, under @transaction.atomic: the
\* tables it leaves and its counters.
ImportHandle(es, fl, accts, files, command, force) ==
    LET before == ImportState(es, fl, accts)
        r == ImportFiles(before, files, command, force)
        rollback == r.raised \/ (r.st.failed > 0 /\ ~force)
        db == Atomic(before, r.st, rollback)
    IN [entries |-> db.entries, flights |-> db.flights,
        accounts |-> db.accounts, count |-> r.st.count,
        failed |-> r.st.failed, duplicates |-> r.st.duplicates,
        skipped |-> r.st.skipped, raised |-> r.raised,
        rolled_back |-> rollback]

RECURSIVE RowCount(_)
RowCount(files) ==
    IF files = <<>> THEN 0
    ELSE (IF Head(files).readable THEN Len(Head(files).rows) ELSE 0)
         + RowCount(Tail(files))

\* The files the commands are given.
CsvRows ==
    {[account |-> 1, date |-> 1, amount |-> 1000, fault |-> "none"],
     [account |-> 3, date |-> 1, amount |-> 1000, fault |-> "none"],
     [account |-> 3, date |-> 1, amount |-> 1000, fault |-> "amount"]}

NdaRows ==
    {[account |-> 1, date |-> 1, amount |-> 3000],
     [account |-> 3, date |-> 1, amount |-> 3000],
     [account |-> 1, date |-> 1, amount |-> -3000]}

FlightCsvRows ==
    {[flight |-> 5, fault |-> "none"], [flight |-> 8, fault |-> "warning"],
     [flight |-> 5, fault |-> "aircraft"]}

RowsOf(command) ==
    CASE command \in {"importentries", "importbalances"} -> CsvRows
      [] command = "importnda" -> NdaRows
      [] command = "importflights" -> FlightCsvRows

OneFile(rows) == <<[readable |-> TRUE, rows |-> rows]>>

\* importentries and importbalances read one file; the other two read every
\* file of a pattern.
ImportInputs(command) ==
    LET R == RowsOf(command)
        single == {OneFile(<<a>>) : a \in R}
                  \cup {OneFile(<<a, b>>) : a \in R, b \in R}
        short == {OneFile(<<a>>) : a \in R}
                 \cup {<<[readable |-> FALSE, rows |-> <<>>]>>}
    IN IF command \in {"importentries", "importbalances"} THEN single
       ELSE single \cup {f \o g : f \in short, g \in short}

ImportCommand(command) ==
    \E force \in BOOLEAN : \E files \in ImportInputs(command) :
       LET r == ImportHandle(entries, flights, account_table, files,
                             command, force)
       IN /\ Len(r.entries) <= MaxImported
          /\ entries' = r.entries
          /\ flights' = r.flights
          /\ account_table' = r.accounts
          /\ last' = [op |-> command, force |-> force,
                      rows |-> RowCount(files), count |-> r.count,
                      failed |-> r.failed, duplicates |-> r.duplicates,
                      skipped |-> r.skipped, raised |-> r.raised]
    /\ UNCHANGED <<invoices, links, refund_entry, now, ghost, batches,
                   duration>>

ImportEntriesCommand == ImportCommand("importentries")
ImportBalancesCommand == ImportCommand("importbalances")
ImportNdaCommand == ImportCommand("importnda")
ImportFlightsCommand == ImportCommand("importflights")

NextImport ==
    \/ ImportEntriesCommand
    \/ ImportBalancesCommand
    \/ ImportNdaCommand
    \/ ImportFlightsCommand

SpecImport == Init /\ [][NextImport]_vars

----------------------------------------------------------------------------
(* Claims about the rule engine, the cap and refunds: Spec *)

Years == {Year(d) : d \in ClockDates \cup {FlightRow[f].date : f \in FlightIds}}

CapSum(es, acc, y) ==
    SumAmounts(es, {e \in AccountIds(es, acc) :
                       Year(es[e].date) = y /\ CapTag \in es[e].tags})

\* C4: for every account and calendar year the amounts of the entries tagged
\* with the cap sum to the cap at most.
C4_CapInvariant ==
    \A acc \in Accounts : \A y \in Years :
        CapSum(entries, acc, y) <= KalustoCap

\* C5 as claimed: refund_event on an event that refund_event has refunded
\* before creates no entry and changes nothing.
C5_RefundedOnce ==
    [][(last'.op = "refund_event" /\ last'.event \in ghost.refunded)
          => (entries' = entries /\ refund_entry' = refund_entry)]_vars

\* C5 as amended: refund_event on an event that is marked refunded, or whose
\* charges sum to zero, creates no entry and changes nothing; on any other
\* event it creates exactly one entry, of the negated sum of the event's
\* additive entries, and marks the event refunded with it.
C5_RefundEvent ==
    [][last'.op = "refund_event" =>
          LET f == last'.event
              total == ChargeTotal(entries, f)
          IN IF refund_entry[f] # 0 \/ total = 0
             THEN entries' = entries /\ refund_entry' = refund_entry
             ELSE /\ Len(entries') = Len(entries) + 1
                  /\ SubSeq(entries', 1, Len(entries)) = entries
                  /\ entries'[Len(entries')].amount = -total
                  /\ entries'[Len(entries')].event = f
                  /\ refund_entry' =
                         [refund_entry EXCEPT ![f] = Len(entries')]]_vars

\* refund_event has just returned None for an event that is marked refunded.
C5_Witness ==
    /\ last.op = "refund_event"
    /\ last.returned = 0
    /\ refund_entry[last.event] # 0
    /\ entries[refund_entry[last.event]].amount
           = -SumAmounts(entries, {e \in EventEntries(entries, last.event) :
                                      e # refund_entry[last.event]})

\* C6: a processevents run that raises leaves no entry, tag or link of the
\* batch behind.
C6_FailureAtomic ==
    [][(last'.op = "processevents" /\ last'.raised)
          => (entries' = entries /\ links' = links
              /\ refund_entry' = refund_entry)]_vars

\* A run has raised after rules had saved entries.
C6_Witness ==
    /\ last.op = "processevents"
    /\ last.raised
    /\ last.saved > 0

\* C7 as claimed: process_event on an event that has linked entries creates
\* no entry for it, whether called by processevents or on its own.
C7_ProcessEventIdempotent ==
    [][last'.op \in {"process_event", "processevents"} =>
          \A f \in FlightIds :
              EventEntries(entries, f) # {} =>
                  EventEntries(entries', f) = EventEntries(entries, f)]_vars

\* C7 as amended: a processevents run creates no entry for an event that
\* has linked entries, and a run right after a run that committed leaves
\* the entries as they are.
C7_CommandIdempotent ==
    [][last'.op = "processevents" =>
          /\ \A f \in FlightIds :
                EventEntries(entries, f) # {} =>
                    EventEntries(entries', f) = EventEntries(entries, f)
          /\ last'.rerun => entries' = entries]_vars

\* A second run in a row, over a ledger the first run has filled.
C7_Witness ==
    /\ last.op = "processevents"
    /\ last.rerun
    /\ \E f \in flights : EventEntries(entries, f) # {}
    /\ Unprocessed(entries, flights) # {}

----------------------------------------------------------------------------
(* Claims about the balance calculator: SpecBalance *)

\* C1: for every account the balance get_balance returns equals the replay of
\* its entries in (date, insertion) order from zero, an additive entry adding
\* its amount and a reset entry replacing the running total.
C1_BalanceIsReplay ==
    \A a \in Accounts :
        GetBalance(entries, a, 0) = Compute(entries, a).balance

----------------------------------------------------------------------------
(* Claims about the invoice command: SpecInvoice *)

CreatedInvoices ==
    IF last.op = "invoice" /\ last.outcome = "done"
    THEN {i \in DOMAIN invoices : i >= last.first} ELSE {}

\* C2: the entries a run attaches to a new invoice sum to the account's
\* balance.
C2_InvoiceSumIsBalance ==
    \A i \in CreatedInvoices :
        InvoiceTotal(entries, links, i)
            = Compute(entries, invoices[i].account).balance

\* C3: a run attaches to a new invoice no entry that precedes a reset entry
\* of the account.
C3_NothingBeforeReset ==
    \A i \in CreatedInvoices :
        \A e \in InvoiceEntries(entries, links, i) :
            \A r \in AccountIds(entries, invoices[i].account) :
                ~entries[r].additive => ~Before(entries, e, r)

NonCancelledInvoices(e) ==
    {i \in EntryInvoices(invoices, links, e) : invoices[i].status # "cancelled"}

DraftInvoices(e) ==
    {i \in EntryInvoices(invoices, links, e) : invoices[i].status = "draft"}

\* C8 as claimed: every entry is associated with at most one invoice that is
\* not cancelled.
C8_AtMostOneNonCancelled ==
    \A e \in DOMAIN entries : Cardinality(NonCancelledInvoices(e)) <= 1

\* C8 as amended: as long as no run was given --ignore-drafts, every entry is
\* associated with at most one draft invoice.
C8_AtMostOneDraft ==
    ~ghost.ignored_drafts =>
        \A e \in DOMAIN entries : Cardinality(DraftInvoices(e)) <= 1

\* An entry of a sent invoice is on the draft of a later run as well.
C8_Witness ==
    /\ ~ghost.ignored_drafts
    /\ \E e \in DOMAIN entries :
          /\ Cardinality(DraftInvoices(e)) = 1
          /\ \E i \in EntryInvoices(invoices, links, e) :
                invoices[i].status = "sent"

----------------------------------------------------------------------------
(* Claims about the guards of AccountEntry: SpecSave, SpecDelete *)

NonDraftInvoices(e) ==
    {i \in EntryInvoices(invoices, links, e) : invoices[i].status # "draft"}

\* C9: saving an entry of an invoice that is not a draft with a different
\* amount is rejected and leaves the stored amount as it was.
C9_NonDraftImmutable ==
    [][(/\ last'.op = "save"
        /\ NonDraftInvoices(last'.entry) # {}
        /\ last'.amount # entries[last'.entry].amount)
          => (last'.rejected /\ entries' = entries)]_vars

\* C10: deleting an entry of any invoice, by delete() or by remove_refunds,
\* is rejected and leaves entries, associations and refund marks as they
\* were; no operation, the cap's drop path included, removes such an entry.
C10_InvoicedUndeletable ==
    [][/\ (/\ last'.op \in {"delete", "remove_refunds"}
           /\ EntryInvoices(invoices, links, last'.entry) # {})
             => /\ last'.rejected
                /\ entries' = entries
                /\ links' = links
                /\ refund_entry' = refund_entry
       /\ \A e \in DOMAIN entries :
             (entries[e].exists /\ EntryInvoices(invoices, links, e) # {})
                 => entries'[e].exists]_vars

\* remove_refunds has been rejected for a refund entry of an invoice that
\* is not a draft any more.
C10_Witness ==
    /\ last.op = "remove_refunds"
    /\ last.rejected
    /\ entries[last.entry].exists
    /\ NonDraftInvoices(last.entry) # {}

----------------------------------------------------------------------------
(* Claims about runs of the invoice command: SpecInvoice, SpecRun *)

\* C11: a run persists no new invoice whose total differs from the balance
\* of its account (a mismatch aborts the run).
C11_MismatchAborts ==
    [][last'.op = "invoice" =>
          \A i \in DOMAIN invoices' :
              (i \notin DOMAIN invoices /\ invoices'[i].exists) =>
                  InvoiceTotal(entries', links', i)
                      = Compute(entries', invoices'[i].account).balance]_vars

\* The accounts a run selects, after its drafts check and draft deletion.
SelectedAccounts(opts) ==
    LET d == IF Drafts(invoices) # {} /\ opts.delete_drafts
             THEN DeleteDrafts(invoices, links)
             ELSE [invoices |-> invoices, links |-> links]
    IN IF ~CheckDrafts(invoices, opts) THEN <<>>
       ELSE AccountsToInvoice(entries, d.invoices, SetToSeq(Accounts), opts)

HasInvisibleAmount(acc) ==
    \E e \in AccountIds(entries, acc) :
        ~entries[e].visible /\ entries[e].amount # 0

\* C12: a run that selects an account with an invisible entry of non-zero
\* amount raises and leaves invoices and associations as they were; any
\* other run attaches no invisible entry to an invoice.
C12_InvisibleAborts ==
    [][last'.op = "invoice" =>
          LET todo == SelectedAccounts(last'.opts)
          IN IF \E k \in DOMAIN todo : HasInvisibleAmount(todo[k])
             THEN /\ last'.outcome = "raised"
                  /\ invoices' = invoices
                  /\ links' = links
             ELSE \A l \in links' \ links : entries[l[1]].visible]_vars

\* A run has raised on account 2 after account 1 had got its invoice, and
\* nothing of the run is left.
C12_Witness ==
    /\ last.op = "invoice"
    /\ last.outcome = "raised"
    /\ Compute(entries, 1).balance > 0
    /\ HasInvisibleAmount(2)
    /\ invoices = <<>>
    /\ links = {}

\* C13: a run with --dry-run leaves invoices and associations, the drafts
\* that --delete-drafts deletes included, as they were.
C13_DryRunFrame ==
    [][(last'.op = "invoice" /\ last'.opts.dry_run)
          => (invoices' = invoices /\ links' = links)]_vars

----------------------------------------------------------------------------
(* Claims about the price cap: Spec *)

\* The entry process_event has just created for its event, when it has.
Candidate == entries'[Len(entries')]

CreatedOne ==
    /\ last'.op = "process_event"
    /\ ~last'.raised
    /\ Len(entries') = Len(entries) + 1

FullPrice(f) == QuantizeHalfUp(FlightRow[f].duration * KalustoPrice, 60)

\* C14: a candidate entry that finds less than the cap accumulated gets
\* cap - accumulated and the cap note when its amount would go over the cap,
\* and keeps its amount, without a note, otherwise.
C14_Clipping ==
    [][CreatedOne =>
          LET f == last'.event
              accumulated == GetAccumulatedAmount(entries, FlightRow[f].account, now)
          IN accumulated < KalustoCap =>
                IF accumulated + FullPrice(f) > KalustoCap
                THEN /\ Candidate.amount = KalustoCap - accumulated
                     /\ Candidate.note
                ELSE /\ Candidate.amount = FullPrice(f)
                     /\ ~Candidate.note]_vars

\* Cap 90: entries of 60 and then 50 for one account and year; the first
\* stays 60, the second has become 30 and carries the note.
C14_Witness ==
    /\ last.op = "process_event"
    /\ last.event = 2
    /\ Len(entries) = 2
    /\ entries[1].amount = 6000 /\ ~entries[1].note
    /\ entries[2].amount = 3000 /\ entries[2].note
    /\ Year(entries[1].date) = Year(entries[2].date)

\* C15: the accumulated total read for a candidate entry is the sum of the
\* tagged entries of its account dated in the entry's own calendar year.
C15_EntryYear ==
    [][CreatedOne =>
          LET f == last'.event
          IN GetAccumulatedAmount(entries, FlightRow[f].account, now)
                 = CapSum(entries, FlightRow[f].account,
                          Year(FlightRow[f].date))]_vars

\* A run of processevents, nothing failing in it, over the single unprocessed
\* event f, whose candidate entry finds the cap already reached.
AtCapRun(f) ==
    /\ last'.op = "processevents"
    /\ ~last'.fault
    /\ Unprocessed(entries, flights) = {f}
    /\ AllRules(entries, f).new # <<>>
    /\ GetAccumulatedAmount(entries, FlightRow[f].account, now) >= KalustoCap

\* C16: when the cap is already reached, with drop-on-cap the run returns and
\* no entry of the event remains; without it the entry is kept with amount
\* 0, the cap note and the cap tag.
C16_DropOnCap ==
    [][\A f \in FlightIds :
          AtCapRun(f) =>
              IF last'.drop
              THEN ~last'.raised /\ EventEntries(entries', f) = {}
              ELSE \E e \in EventEntries(entries', f) :
                      /\ entries'[e].amount = 0
                      /\ entries'[e].note
                      /\ CapTag \in entries'[e].tags]_vars

\* C17: processing never lowers the tagged total of an account and year,
\* and leaves a total that has reached the cap as it is.
C17_Monotone ==
    [][last'.op \in {"process_event", "processevents"} =>
          \A acc \in Accounts : \A y \in Years :
              /\ CapSum(entries', acc, y) >= CapSum(entries, acc, y)
              /\ CapSum(entries, acc, y) >= KalustoCap
                    => CapSum(entries', acc, y) = CapSum(entries, acc, y)]_vars

----------------------------------------------------------------------------
(* Claims about concurrent batches: SpecConcurrent *)

\* C18: whatever the interleaving of two batches, the tagged total of every
\* account for the year stays at or below the cap.
C18_NoStaleClip ==
    \A acc \in Accounts : CapSum(entries, acc, Year(now)) <= KalustoCap

----------------------------------------------------------------------------
(* Claims about the rule combinators: SpecRules *)

\* C19: the wrapped rule sees the floor only when the aircraft matches the
\* wrapper's filters and the duration is below the floor, and after the
\* evaluation the event's duration is what it was, raised or not.
C19_DurationRestored ==
    [][\A f \in FlightIds :
          (last'.op = "first_rule" /\ last'.event = f) =>
              /\ last'.seen = IF /\ FlightRow[f].kind = "flight"
                                 /\ FlightRow[f].aircraft \in F_MOTTI
                                 /\ duration[f] < MinDuration
                              THEN MinDuration ELSE duration[f]
              /\ duration'[f] = duration[f]]_vars

\* What one wrapped rule of the list gives when evaluated alone.
Alone(f, price, accounts, template) ==
    MinimumDurationRule(entries, f, duration[f], price, F_1037, accounts,
                        template, FALSE)

\* C20: the list returns, and persists, the entries of the first rule in
\* declared order whose result is not empty, and nothing of the rules after
\* it; when no rule gives entries the result is empty.
C20_FirstMatch ==
    [][\A f \in FlightIds :
          (last'.op = "first_rule" /\ last'.event = f /\ ~last'.raised) =>
              LET youth == Alone(f, Price1037Youth, YouthAccounts,
                                 last'.template)
                  normal == Alone(f, Price1037, AnyAccount, T_FLIGHT)
              IN IF youth.new # <<>>
                 THEN entries' = youth.entries /\ last'.lines = youth.new
                 ELSE IF normal.new # <<>>
                      THEN entries' = normal.entries /\ last'.lines = normal.new
                      ELSE entries' = entries /\ last'.lines = <<>>]_vars

\* A young pilot's flight of 10 minutes on OH-1037: both rules match it, and
\* the one entry it has is 15 minutes at the youth price.
C20_Witness ==
    /\ last.op = "first_rule"
    /\ last.event = 5
    /\ ~last.raised
    /\ Len(entries) = 1
    /\ entries[1].event = 5
    /\ entries[1].amount = 2119
    /\ Alone(5, Price1037, AnyAccount, T_FLIGHT).new # <<>>

\* C21: a pricing rule returns nothing and persists nothing for an event that
\* is not a flight, fails a filter or has no owning account; otherwise it
\* returns one entry, additive, visible, of the event and its account, its
\* amount the hourly price times the minutes over 60.
C21_PricingRule ==
    [][\A f \in FlightIds :
          (last'.op = "first_rule" /\ last'.event = f /\ ~last'.fault) =>
              LET row == FlightRow[f]
                  price == IF row.account \in YouthAccounts
                           THEN Price1037Youth ELSE Price1037
              IN IF \/ row.kind # "flight"
                    \/ row.aircraft \notin F_1037
                    \/ row.account = 0
                 THEN /\ ~last'.raised
                      /\ last'.lines = <<>>
                      /\ entries' = entries
                 ELSE /\ ~last'.raised
                      /\ last'.lines = <<Len(entries) + 1>>
                      /\ Len(entries') = Len(entries) + 1
                      /\ SubSeq(entries', 1, Len(entries)) = entries
                      /\ LET e == entries'[Len(entries')]
                         IN /\ e.additive /\ e.visible /\ e.exists
                            /\ e.event = f
                            /\ e.account = row.account
                            /\ e.amount = QuantizeHalfUp(last'.seen * price, 60)]_vars

----------------------------------------------------------------------------
(* Claims about the order of a batch: Spec *)

\* What every event has been charged in all.
AmountsByEvent(es) ==
    [f \in FlightIds |-> SumAmounts(es, EventEntries(es, f))]

\* C22: a run of processevents takes the events by account and then by
\* date, and its result is determined by the state it starts from: every
\* order the query may give ends with the same amounts for every event.
C22_Deterministic ==
    [][(last'.op = "processevents" /\ ~last'.fault /\ ~last'.drop) =>
          \A queue \in EventOrders(Unprocessed(entries, flights)) :
              /\ \A i, j \in DOMAIN queue :
                    i < j => /\ FlightRow[queue[i]].account <= FlightRow[queue[j]].account
                             /\ FlightRow[queue[i]].account = FlightRow[queue[j]].account
                                   => FlightRow[queue[i]].date <= FlightRow[queue[j]].date
              /\ AmountsByEvent(entries')
                    = AmountsByEvent(ProcessEvents(entries, invoices, links,
                                                   queue, now, FALSE, 0).entries)]_vars

----------------------------------------------------------------------------
(* Claims about the life of an invoice: SpecInvoice *)

----------------------------------------------------------------------------
(* Claims about the overdue date: SpecBalance *)

\* The date the balance calculator is to give: none at a balance of zero or
\* less; else that of the first step of the running-balance sequence above
\* zero, or of the first entry when no step is.
FirstPositiveDate(es, acc) ==
    LET c == Compute(es, acc)
        be == c.balance_entries
        positive == {k \in DOMAIN be : be[k].balance > 0}
    IN IF c.balance <= 0 THEN 0
       ELSE IF positive = {} THEN es[be[1].entry].date
       ELSE es[be[CHOOSE k \in positive : \A l \in positive : k <= l].entry].date

\* C24: the last non-overdue date is None at a balance of zero or less, and
\* otherwise the date of the first entry whose running balance is above zero.
C24_FirstPositive ==
    \A a \in Accounts :
        GetLastNonOverdueDate(entries, a) = FirstPositiveDate(entries, a)

----------------------------------------------------------------------------
(* Claims about the backward walk: SpecWalk *)

\* The positions of the visible running-balance sequence of an account.
Visible(acc) ==
    VisibleEntries(entries, Compute(entries, acc).balance_entries)

ZeroSteps(acc) ==
    {k \in DOMAIN Visible(acc) : Visible(acc)[k].balance = 0}

Highest(S) == CHOOSE k \in S : \A l \in S : l <= k

\* Where the walk is to stop, 0 for the start of history: the last zero step
\* for a balance of zero or more, the last but one for a negative balance.
StopStep(acc) ==
    LET zeros == ZeroSteps(acc)
    IN IF Compute(entries, acc).balance >= 0
       THEN IF zeros = {} THEN 0 ELSE Highest(zeros)
       ELSE IF Cardinality(zeros) < 2 THEN 0
            ELSE Highest(zeros \ {Highest(zeros)})

\* The entries the walk is to collect: those after the stop, from the last
\* reset entry among them on.
ExpectedWalk(acc) ==
    LET vis == Visible(acc)
        after == {k \in DOMAIN vis : k > StopStep(acc)}
        resets == {k \in after : ~entries[vis[k].entry].additive}
        from == IF resets = {} THEN StopStep(acc) + 1 ELSE Highest(resets)
    IN {vis[k].entry : k \in {l \in after : l >= from}}

\* C25: without --include-all-entries, the entries of a new invoice are those
\* after the first zero balance met going backwards (excluded) when the
\* balance is zero or more, and after the second when it is negative, the
\* first being collected; a reset entry or the start of history ends the walk
\* before.
C25_BackwardWalk ==
    \A i \in CreatedInvoices :
        ~last.opts.include_all_entries =>
            InvoiceEntries(entries, links, i) = ExpectedWalk(invoices[i].account)

\* An account in credit with two zero steps and no reset: the invoice has
\* the first zero step's entry and not the second's.
C25_Witness ==
    \E i \in CreatedInvoices :
        LET acc == invoices[i].account
            zeros == ZeroSteps(acc)
        IN /\ ~last.opts.include_all_entries
           /\ Compute(entries, acc).balance < 0
           /\ Cardinality(zeros) >= 2
           /\ \A e \in AccountIds(entries, acc) : entries[e].additive
           /\ Visible(acc)[Highest(zeros)].entry
                  \in InvoiceEntries(entries, links, i)
           /\ Visible(acc)[StopStep(acc)].entry
                  \notin InvoiceEntries(entries, links, i)

----------------------------------------------------------------------------
(* Claims about the precision of amounts: SpecRules *)

----------------------------------------------------------------------------
(* Claims about the import commands: SpecImport *)

ImportOps == {"importentries", "importbalances", "importnda", "importflights"}

IsPrefix(a, b) == Len(a) <= Len(b) /\ SubSeq(b, 1, Len(a)) = a

\* C27: an import command that ran to its end has counted every row it read
\* as imported, failed, duplicate or filtered out.  Without --force, one
\* failed row leaves the entries, the flights and the accounts as they were
\* before the run.  Otherwise the tables are the old ones with exactly the
\* imported rows added, and the accounts are the old ones and those of the
\* imported rows, so a failed row has only been counted.
C27_StrictOrForce ==
    [][(last'.op \in ImportOps /\ ~last'.raised) =>
          /\ last'.rows = last'.count + last'.failed + last'.duplicates
                          + last'.skipped
          /\ (~last'.force /\ last'.failed > 0) =>
                /\ entries' = entries
                /\ flights' = flights
                /\ account_table' = account_table
          /\ (last'.force \/ last'.failed = 0) =>
                /\ IsPrefix(entries, entries')
                /\ flights \subseteq flights'
                /\ (Len(entries') - Len(entries))
                   + Cardinality(flights' \ flights) = last'.count
                /\ account_table' \ account_table
                      \subseteq {entries'[e].account :
                                    e \in (Len(entries) + 1)..Len(entries')}]_vars

----------------------------------------------------------------------------
(* Claims about the decision to invoice: SpecDecide *)

SentInvoices(invs, acc) ==
    {i \in DOMAIN invs : invs[i].exists /\ invs[i].account = acc
                         /\ invs[i].sent_at # 0}

\* An entry of the account dated on the day its latest sent invoice was sent
\* or later.
EntrySinceLastSent(es, invs, acc) ==
    /\ SentInvoices(invs, acc) # {}
    /\ \E e \in AccountIds(es, acc) :
          \A i \in SentInvoices(invs, acc) : es[e].date >= invs[i].sent_at

\* An entry of the account inside the period, when one is given.
EntryInPeriod(es, acc, opts) ==
    /\ opts.period_start # 0 \/ opts.period_end # 0
    /\ \E e \in AccountIds(es, acc) :
          /\ opts.period_start = 0 \/ es[e].date >= opts.period_start
          /\ opts.period_end = 0 \/ es[e].date <= opts.period_end

Decision(es, invs, acc, balance, opts) ==
    IF opts.invoice_everyone
    THEN balance # 0 \/ opts.include_zero_balance
    ELSE IF balance > 0 THEN TRUE
    ELSE IF balance = 0 /\ ~opts.include_zero_balance THEN FALSE
    ELSE EntrySinceLastSent(es, invs, acc) \/ EntryInPeriod(es, acc, opts)

Invoiced(todo) == {todo[k] : k \in DOMAIN todo}

\* C28: an invoice run that gets as far as deciding picks exactly the
\* accounts for which, at their balance: with invoice_everyone the balance is
\* not zero or include_zero_balance is set; otherwise the balance is above
\* zero, or it is not (zero without include_zero_balance) and the account has
\* an entry dated on or after the send date of its last sent invoice or an
\* entry within the period given.
C28_Decision ==
    [][(last'.op = "invoice" /\ last'.outcome # "drafts_exist") =>
          \A acc \in Accounts :
             (acc \in Invoiced(last'.todo))
                <=> Decision(entries, invoices, acc,
                             Compute(entries, acc).balance, last'.opts)]_vars

\* An account in credit was picked without invoice_everyone and without a
\* period: it has an entry since its last sent invoice.
C28_Witness ==
    /\ last.op = "invoice" /\ last.outcome = "done"
    /\ ~last.opts.invoice_everyone
    /\ last.opts.period_start = 0 /\ last.opts.period_end = 0
    /\ 1 \in Invoiced(last.todo)
    /\ Compute(entries, 1).balance < 0

----------------------------------------------------------------------------
(* Claims about the send command: SpecInvoice *)

NewlySent(before, after) ==
    {i \in Drafts(before) : after[i].status = "sent"}

\* C29: a run of sendinvoices marks sent, with the date, exactly as many
\* drafts as dispatches have returned, and touches nothing else.  When a
\* dispatch fails (or the account has no address) the invoice it was for is
\* still a draft, the ones sent before it in the run are sent and the rest
\* of the run's drafts are drafts; when none fails every draft is sent.
C29_SentAfterDispatch ==
    [][last'.op = "sendinvoices" =>
          /\ DOMAIN invoices' = DOMAIN invoices
          /\ \A i \in DOMAIN invoices :
                \/ invoices'[i] = invoices[i]
                \/ /\ i \in Drafts(invoices)
                   /\ invoices'[i] = [invoices[i] EXCEPT !.status = "sent",
                                                        !.sent_at = now]
          /\ Cardinality(NewlySent(invoices, invoices')) = last'.sent
          /\ last'.raised =>
                /\ last'.failed \in Drafts(invoices)
                /\ invoices'[last'.failed] = invoices[last'.failed]
          /\ ~last'.raised =>
                NewlySent(invoices, invoices') = Drafts(invoices)]_vars

\* A run sent one invoice, failed on the next and left a third untouched.
C29_Witness ==
    /\ last.op = "sendinvoices" /\ last.raised /\ last.sent = 1
    /\ invoices[last.failed].status = "draft"
    /\ \E i \in DOMAIN invoices :
          invoices[i].status = "sent" /\ invoices[i].sent_at = now
    /\ \E i \in Drafts(invoices) : i # last.failed

----------------------------------------------------------------------------
(* Claims about refunds: SpecRefunds *)

\* The entries refund_event has made for the event and that are still there.
RefundsOf(f) ==
    {e \in EventEntries(entries, f) : e \in ghost.refunds}

\* C30: the entries of an event that is marked refunded, its charges and its
\* refund, sum to zero; an event that is not marked refunded has no refund
\* entry among its entries.
C30_RefundBalance ==
    \A f \in FlightIds :
        IF HasBeenRefunded(refund_entry, f)
        THEN SumAmounts(entries, EventEntries(entries, f)) = 0
        ELSE RefundsOf(f) = {}

\* An event with a charge and the refund of it.
C30_Witness ==
    \E f \in FlightIds :
        /\ HasBeenRefunded(refund_entry, f)
        /\ RefundsOf(f) = {refund_entry[f]}
        /\ \E e \in EventEntries(entries, f) :
              e \notin ghost.refunds /\ entries[e].amount > 0

====
